---- MODULE Spec2Model ----
(***************************************************************************)
(* Model of the alarm driver client, apis/alarm/src/lib.rs.                *)
(*                                                                         *)
(* A u32 is a pair <<hi, lo>> of 16-bit limbs (value hi * 2^16 + lo), so   *)
(* that the whole 32-bit range, 0xFFFF_FFFF included, is represented and   *)
(* every intermediate of the arithmetic stays below 2^31.                  *)
(*                                                                         *)
(* sleep_for is a sequence of steps, one per syscall it issues; the kernel *)
(* (subscription slot, armed alarm, queued upcall) is the environment.     *)
(***************************************************************************)
EXTENDS Integers, Sequences, FiniteSets, TLC

VARIABLES
    pc,        \* position inside the running call, "idle" between calls
    api,       \* the API function called last
    time,      \* sleep_for's argument: [unit, v]
    freq,      \* sleep_for's local freq (Hz)
    ticks,     \* sleep_for's local ticks
    cellId,    \* identity of the live observation cell `called`, NoCell if none
    called,    \* contents of the observation cell: None or <<when, ref>>
    ret,       \* value the scope closure / function is returning
    result,    \* what the last API call returned to its caller
    log,       \* syscalls issued by the current (or last) API call, in order
    calls,     \* number of sleep_for calls started
    spurious,  \* unrelated upcalls delivered to the current sleep_for call
    ksub,      \* kernel: cell the subscription of driver 0 slot 0 points at
    karmed,    \* kernel: a one-shot alarm is armed and has not fired
    kpending,  \* kernel: an alarm upcall is queued for delivery at a yield
    lost,      \* an alarm fired while no callback was registered
    prevFreq,  \* the frequency the previous sleep_for call was given
    conv       \* a conversion or tick sum worked out on its own: operands, results

vars == <<pc, api, time, freq, ticks, cellId, called, ret, result, log,
          calls, spurious, ksub, karmed, kpending, lost, prevFreq, conv>>

\* ---------------------------------------------------------------- bounds

MaxCalls == 2

MaxSpurious == 2

\* ------------------------------------------------------------- constants

DRIVER_NUM == 0

EXISTS == 0

FREQUENCY == 1

TIME == 2

SET_RELATIVE == 5

CALLBACK == 0

\* ---------------------------------------------------------- u32 in limbs

Limb == 2 ^ 16

U32(n) == <<n \div Limb, n % Limb>>

Zero == <<0, 0>>

U32_MAX == <<Limb - 1, Limb - 1>>

\* Exact product of two 16-bit limbs, as a u32
Mul16(x, y) ==
    LET p1 == x * (y \div 256)
        p0 == x * (y % 256)
        s  == (p1 % 256) * 256 + p0
    IN  <<(p1 \div 256) + (s \div Limb), s % Limb>>

\* Exact 64-bit product of two u32, as four limbs, most significant first
WideMul(a, b) ==
    LET ll == Mul16(a[2], b[2])
        lh == Mul16(a[2], b[1])
        hl == Mul16(a[1], b[2])
        hh == Mul16(a[1], b[1])
        c1 == ll[1] + lh[2] + hl[2]
        c2 == lh[1] + hl[1] + hh[2] + (c1 \div Limb)
    IN  <<hh[1] + (c2 \div Limb), c2 % Limb, c1 % Limb, ll[2]>>

\* u32::checked_mul: [over |-> the product exceeds 32 bits, val |-> low 32 bits]
checked_mul(a, b) ==
    LET w == WideMul(a, b)
    IN  [over |-> (w[1] # 0 \/ w[2] # 0), val |-> <<w[3], w[4]>>]

\* u32::wrapping_mul, what saturating_mul is not
saturating_mul_wrapping(a, b) == checked_mul(a, b).val

saturating_mul(a, b) ==
    LET p == checked_mul(a, b)
    IN  IF p.over THEN U32_MAX ELSE p.val

wrapping_add(a, b) ==
    LET lo == a[2] + b[2]
        hi == a[1] + b[1] + (lo \div Limb)
    IN  <<hi % Limb, lo % Limb>>

wrapping_sub(a, b) ==
    LET lo == a[2] - b[2]
        bw == IF lo < 0 THEN 1 ELSE 0
        hi == a[1] - b[1] - bw
    IN  <<hi % Limb, lo % Limb>>

\* ------------------------------------------------------------ conversion

\* a / other and a % other for a u32 a and a divisor 0 < other < 2^15
DivU32(a, other) ==
    LET t == (a[1] % other) * Limb + a[2]
    IN  <<a[1] \div other, t \div other>>

RemU32(a, other) == ((a[1] % other) * Limb + a[2]) % other

div_ceil_floor(a, other) == DivU32(a, other)

div_ceil(a, other) ==
    LET d == DivU32(a, other)
        m == RemU32(a, other)
    IN  IF m = 0 THEN d ELSE wrapping_add(d, U32(1))

\* whether a step of div_ceil panics: a division by zero, or d + 1
\* overflowing (a panic of a build with overflow checks)
div_ceil_panics(a, other) ==
    \/ other = 0
    \/ (RemU32(a, other) # 0 /\ DivU32(a, other) = U32_MAX)

\* to_ticks that converts a tick count as if it were milliseconds
Ticks_to_ticks_scaled(self, f) == div_ceil(saturating_mul(self, f), 1000)

Ticks_to_ticks(self, f) == self

Milliseconds_to_ticks(self, f) == div_ceil(saturating_mul(self, f), 1000)

\* to_ticks whose multiplication is the plain *, which panics on overflow
Milliseconds_to_ticks_panics_mul(self, f) ==
    \/ checked_mul(self, f).over
    \/ div_ceil_panics(saturating_mul(self, f), 1000)

\* whether a step of Milliseconds::to_ticks panics; saturating_mul never does
Milliseconds_to_ticks_panics(self, f) ==
    div_ceil_panics(saturating_mul(self, f), 1000)

\* u32::saturating_add
Ticks_add_saturating(self, other) ==
    IF wrapping_add(self, other)[1] < self[1]
       \/ (wrapping_add(self, other)[1] = self[1]
           /\ wrapping_add(self, other)[2] < self[2])
    THEN U32_MAX
    ELSE wrapping_add(self, other)

\* impl Add for Ticks
Ticks_add(self, other) == wrapping_add(self, other)

\* impl Sub for Ticks
Ticks_sub(self, other) == wrapping_sub(self, other)

\* trait dispatch of Convert::to_ticks on the unit of the duration
to_ticks(t, f) ==
    IF t.unit = "ticks" THEN Ticks_to_ticks(t.v, f)
                        ELSE Milliseconds_to_ticks(t.v, f)

Ticks(n) == [unit |-> "ticks", v |-> n]

Milliseconds(n) == [unit |-> "ms", v |-> n]

\* --------------------------------------------------------------- results

None == "None"

NoCell == 0

Unit == Zero

Ok(v) == [tag |-> "Ok", val |-> v, err |-> "none"]

Err(e) == [tag |-> "Err", val |-> Zero, err |-> e]

NoResult == [tag |-> "none", val |-> Zero, err |-> "none"]

\* what the kernel answers to a command: success with a u32, or an error code
CmdSuccess(v) == [ok |-> TRUE, val |-> v, err |-> "none"]

CmdFailure(e) == [ok |-> FALSE, val |-> Zero, err |-> e]

\* CommandReturn::to_result, and the ? operator on its Result
to_result(r) == IF r.ok THEN Ok(r.val) ELSE Err(r.err)

\* one syscall as the kernel sees it
\* (ret is "OK" or the error code, val the u32 a successful command returned)
Sys(op, driver, num, a1, a2, cell, r, v) ==
    [op |-> op, driver |-> driver, num |-> num, arg1 |-> a1, arg2 |-> a2,
     cell |-> cell, ret |-> r, val |-> v]

Command(id, a1, a2, r) ==
    Sys("command", DRIVER_NUM, id, a1, a2, NoCell,
        IF r.ok THEN "OK" ELSE r.err, r.val)

Subscribe(cell, r) ==
    Sys("subscribe", DRIVER_NUM, CALLBACK, Zero, Zero, cell, r, Zero)

YieldWait == Sys("yield", 0, 0, Zero, Zero, NoCell, "OK", Zero)

\* ---------------------------------------------------------------- inputs

ErrorCodes == {"FAIL", "BUSY", "NODEVICE"}

Frequencies ==
    {U32(0), U32(1), U32(1000), U32(16000), U32(1000000), U32(10000000)}

Durations ==
    {Milliseconds(U32(0)), Milliseconds(U32(1)), Milliseconds(U32(2500)),
     Milliseconds(U32_MAX), Ticks(U32(0)), Ticks(U32(40000)), Ticks(U32_MAX)}

Times == {U32(0), U32(123456), U32_MAX}

UpcallArgs == {<<Zero, Zero>>, <<U32(40000), U32(40007)>>}

CommandReturns(vals) ==
    {CmdSuccess(v) : v \in vals} \cup {CmdFailure(e) : e \in ErrorCodes}

\* ---------------------------------------------------------- control flow

\* sleep_for whose Ok return leaves the scope without the null subscribe
sleep_for_ok_leak(step, ok) ==
    CASE step = "get_frequency" -> IF ok THEN "subscribe" ELSE "return"
      [] step = "subscribe"     -> IF ok THEN "command" ELSE "scope_exit"
      [] step = "command"       -> IF ok THEN "yield" ELSE "scope_exit"
      [] step = "yield"         -> "check"
      [] step = "check"         -> IF ok THEN "return" ELSE "yield"
      [] step = "scope_exit"    -> "return"
      [] OTHER                  -> "idle"

\* sleep_for whose failed arm command returns without the null subscribe
sleep_for_err_leak(step, ok) ==
    CASE step = "get_frequency" -> IF ok THEN "subscribe" ELSE "return"
      [] step = "subscribe"     -> IF ok THEN "command" ELSE "scope_exit"
      [] step = "command"       -> IF ok THEN "yield" ELSE "return"
      [] step = "yield"         -> "check"
      [] step = "check"         -> IF ok THEN "scope_exit" ELSE "yield"
      [] step = "scope_exit"    -> "return"
      [] OTHER                  -> "idle"

\* sleep_for that arms the alarm before it registers the callback
sleep_for_arm_first(step, ok) ==
    CASE step = "get_frequency" -> IF ok THEN "command" ELSE "return"
      [] step = "command"       -> IF ok THEN "subscribe" ELSE "scope_exit"
      [] step = "subscribe"     -> IF ok THEN "yield" ELSE "scope_exit"
      [] step = "yield"         -> "check"
      [] step = "check"         -> IF ok THEN "scope_exit" ELSE "yield"
      [] step = "scope_exit"    -> "return"
      [] OTHER                  -> "idle"

\* sleep_for that goes on to yield after a failed arm command
sleep_for_ignore_arm_error(step, ok) ==
    CASE step = "get_frequency" -> IF ok THEN "subscribe" ELSE "return"
      [] step = "subscribe"     -> IF ok THEN "command" ELSE "scope_exit"
      [] step = "command"       -> "yield"
      [] step = "yield"         -> "check"
      [] step = "check"         -> IF ok THEN "scope_exit" ELSE "yield"
      [] step = "scope_exit"    -> "return"
      [] OTHER                  -> "idle"

\* sleep_for that goes on to arm after a failed subscribe
sleep_for_ignore_subscribe_error(step, ok) ==
    CASE step = "get_frequency" -> IF ok THEN "subscribe" ELSE "return"
      [] step = "subscribe"     -> "command"
      [] step = "command"       -> IF ok THEN "yield" ELSE "scope_exit"
      [] step = "yield"         -> "check"
      [] step = "check"         -> IF ok THEN "scope_exit" ELSE "yield"
      [] step = "scope_exit"    -> "return"
      [] OTHER                  -> "idle"

\* sleep_for that queries the frequency inside the subscribe scope
sleep_for_scope_first(step, ok) ==
    CASE step = "get_frequency" -> IF ok THEN "subscribe" ELSE "scope_exit"
      [] step = "subscribe"     -> IF ok THEN "command" ELSE "scope_exit"
      [] step = "command"       -> IF ok THEN "yield" ELSE "scope_exit"
      [] step = "yield"         -> "check"
      [] step = "check"         -> IF ok THEN "scope_exit" ELSE "yield"
      [] step = "scope_exit"    -> "return"
      [] OTHER                  -> "idle"

\* sleep_for that issues the arm command again when it failed
sleep_for_retry(step, ok) ==
    CASE step = "get_frequency" -> IF ok THEN "subscribe" ELSE "return"
      [] step = "subscribe"     -> IF ok THEN "command" ELSE "scope_exit"
      [] step = "command"       -> IF ok THEN "yield" ELSE "command"
      [] step = "yield"         -> "check"
      [] step = "check"         -> IF ok THEN "scope_exit" ELSE "yield"
      [] step = "scope_exit"    -> "return"
      [] OTHER                  -> "idle"

\* the step sleep_for takes after `step`, given whether `step` succeeded
sleep_for(step, ok) ==
    CASE step = "get_frequency" -> IF ok THEN "subscribe" ELSE "return"
      [] step = "subscribe"     -> IF ok THEN "command" ELSE "scope_exit"
      [] step = "command"       -> IF ok THEN "yield" ELSE "scope_exit"
      [] step = "yield"         -> "check"
      [] step = "check"         -> IF ok THEN "scope_exit" ELSE "yield"
      [] step = "scope_exit"    -> "return"
      [] OTHER                  -> "idle"

is_some_always(c) == TRUE

is_some_never(c) == FALSE

Cell_new_some == <<Zero, Zero>>

\* Cell::new(None): the contents of a new observation cell
Cell_new == None

\* the loop's exit test: if let Some((_when, _ref)) = called.get()
is_some(c) == c # None

\* ------------------------------------------------------------------ Init

InitProgram ==
    /\ pc = "idle"
    /\ api = "none"
    /\ time = Ticks(Zero)
    /\ freq = Zero
    /\ ticks = Zero
    /\ cellId = NoCell
    /\ called = None
    /\ ret = NoResult
    /\ result = NoResult
    /\ log = <<>>
    /\ calls = 0
    /\ spurious = 0
    /\ ksub = NoCell
    /\ karmed = FALSE
    /\ kpending = FALSE
    /\ lost = FALSE
    /\ prevFreq = Zero

\* no conversion is being worked out on its own
NoConv ==
    [stage |-> "none", a |-> Zero, b |-> Zero, f |-> Zero, ta |-> Zero,
     tb |-> Zero, id |-> Zero, sum |-> Zero, diff |-> Zero, panic |-> FALSE]

Init == InitProgram /\ conv = NoConv

kernel == <<ksub, karmed, kpending, lost>>

locals == <<time, freq, ticks, cellId, called, ret, prevFreq>>

\* --------------------------------------------------------------- queries

\* a query that answers a repeated call from what it returned before
Query_cached(name, id, vals) ==
    /\ pc = "idle"
    /\ \E r \in CommandReturns(vals) :
          /\ log' = <<Command(id, Zero, Zero, r)>>
          /\ result' = IF api = name THEN result ELSE to_result(r)
    /\ api' = name
    /\ UNCHANGED conv
    /\ UNCHANGED <<pc, calls, spurious, locals, kernel>>

\* a query: one command on the driver, its result handed to the caller
Query(name, id, vals) ==
    /\ pc = "idle"
    /\ \E r \in CommandReturns(vals) :
          /\ log' = <<Command(id, Zero, Zero, r)>>
          /\ result' = to_result(r)
    /\ api' = name
    /\ UNCHANGED conv
    /\ UNCHANGED <<pc, calls, spurious, locals, kernel>>

exists == Query("exists", EXISTS, {Zero})

get_frequency == Query("get_frequency", FREQUENCY, Frequencies)

get_time == Query("get_time", TIME, Times)

\* ------------------------------------------------------------- sleep_for

\* the caller enters sleep_for(t)
SleepFor ==
    /\ pc = "idle"
    /\ calls < MaxCalls
    /\ \E t \in Durations : time' = t
    /\ pc' = "get_frequency"
    /\ api' = "sleep_for"
    /\ calls' = calls + 1
    /\ spurious' = 0
    /\ log' = <<>>
    /\ freq' = Zero
    /\ prevFreq' = freq
    /\ ticks' = Zero
    /\ called' = None
    /\ ret' = NoResult
    /\ result' = NoResult
    /\ UNCHANGED conv
    /\ UNCHANGED <<cellId, kernel>>

\* let freq = Self::get_frequency()?; let ticks = time.to_ticks(freq);
\* let called = Cell::new(None);
QueryFrequency ==
    /\ pc = "get_frequency"
    /\ \E r \in CommandReturns(Frequencies) :
          /\ log' = Append(log, Command(FREQUENCY, Zero, Zero, r))
          /\ pc' = sleep_for("get_frequency", r.ok)
          /\ IF r.ok
             THEN /\ freq' = r.val
                  /\ ticks' = to_ticks(time, r.val)
                  /\ cellId' = calls
                  /\ called' = Cell_new
                  /\ ret' = ret
             ELSE /\ ret' = to_result(r)
                  /\ UNCHANGED <<freq, ticks, cellId, called>>
    /\ UNCHANGED conv
    /\ UNCHANGED <<api, time, result, calls, spurious, kernel, prevFreq>>

\* S::subscribe::<_, _, C, DRIVER_NUM, { subscribe::CALLBACK }>(subscribe, &called)?
RegisterCallback ==
    /\ pc = "subscribe"
    /\ \E r \in {"OK"} \cup ErrorCodes :
          /\ log' = Append(log, Subscribe(cellId, r))
          /\ pc' = sleep_for("subscribe", r = "OK")
          /\ IF r = "OK"
             THEN /\ ksub' = cellId
                  /\ kpending' = FALSE
                  /\ ret' = ret
             ELSE /\ ret' = Err(r)
                  /\ UNCHANGED <<ksub, kpending>>
    /\ UNCHANGED conv
    /\ UNCHANGED <<api, time, freq, ticks, cellId, called, result, calls,
                   spurious, karmed, lost, prevFreq>>

\* S::command(DRIVER_NUM, command::SET_RELATIVE, ticks.0, 0).to_result().map(..)?
Arm ==
    /\ pc = "command"
    /\ \E r \in CommandReturns(Times) :
          /\ log' = Append(log, Command(SET_RELATIVE, ticks, Zero, r))
          /\ pc' = sleep_for("command", r.ok)
          /\ karmed' = (karmed \/ r.ok)
          /\ ret' = IF r.ok THEN ret ELSE to_result(r)
    /\ UNCHANGED conv
    /\ UNCHANGED <<api, time, freq, ticks, cellId, called, result, calls,
                   spurious, ksub, kpending, lost, prevFreq>>

\* the kernel's one-shot alarm expires: the upcall is queued for the
\* registered callback, or dropped when none is registered
Fire ==
    /\ karmed
    /\ karmed' = FALSE
    /\ kpending' = (ksub # NoCell)
    /\ lost' = (lost \/ ksub = NoCell)
    /\ UNCHANGED conv
    /\ UNCHANGED <<pc, api, locals, result, log, calls, spurious, ksub>>

\* S::yield_wait() returns after the kernel delivered the alarm upcall, which
\* writes Some((when, ref)) into the cell the subscription points at
YieldAlarm ==
    /\ pc = "yield"
    /\ kpending
    /\ kpending' = FALSE
    /\ \E a \in UpcallArgs :
          called' = IF ksub = cellId THEN a ELSE called
    /\ log' = Append(log, YieldWait)
    /\ pc' = sleep_for("yield", TRUE)
    /\ UNCHANGED conv
    /\ UNCHANGED <<api, time, freq, ticks, cellId, ret, result, calls,
                   spurious, ksub, karmed, lost, prevFreq>>

\* S::yield_wait() returns after the kernel delivered an unrelated upcall
YieldOther ==
    /\ pc = "yield"
    /\ spurious < MaxSpurious
    /\ spurious' = spurious + 1
    /\ log' = Append(log, YieldWait)
    /\ pc' = sleep_for("yield", TRUE)
    /\ UNCHANGED conv
    /\ UNCHANGED <<api, locals, result, calls, kernel>>

\* if let Some((_when, _ref)) = called.get() { return Ok(()); }
Check ==
    /\ pc = "check"
    /\ pc' = sleep_for("check", is_some(called))
    /\ ret' = IF is_some(called) THEN Ok(Unit) ELSE ret
    /\ UNCHANGED conv
    /\ UNCHANGED <<api, time, freq, ticks, cellId, called, result, log,
                   calls, spurious, kernel, prevFreq>>

\* share::scope ends: the subscription is replaced by a null entry
ScopeExit ==
    /\ pc = "scope_exit"
    /\ log' = Append(log, Subscribe(NoCell, "OK"))
    /\ ksub' = NoCell
    /\ kpending' = FALSE
    /\ pc' = sleep_for("scope_exit", TRUE)
    /\ UNCHANGED conv
    /\ UNCHANGED <<api, locals, result, calls, spurious, karmed, lost>>

\* sleep_for returns: the cell goes out of scope, the caller gets the result
Return ==
    /\ pc = "return"
    /\ result' = ret
    /\ cellId' = NoCell
    /\ pc' = sleep_for("return", TRUE)
    /\ UNCHANGED conv
    /\ UNCHANGED <<api, time, freq, ticks, called, ret, log, calls, spurious,
                   kernel, prevFreq>>

Next ==
    \/ exists
    \/ get_frequency
    \/ get_time
    \/ SleepFor
    \/ QueryFrequency
    \/ RegisterCallback
    \/ Arm
    \/ Fire
    \/ YieldAlarm
    \/ YieldOther
    \/ Check
    \/ ScopeExit
    \/ Return

Spec == Init /\ [][Next]_vars

\* The single-threaded code runs on between syscalls, the hardware timer
\* expires, and the kernel delivers a queued alarm upcall at some yield.
FairSpec ==
    /\ Spec
    /\ WF_vars(Check)
    /\ WF_vars(ScopeExit)
    /\ WF_vars(Return)
    /\ WF_vars(Fire)
    /\ SF_vars(YieldAlarm)

\* ---------------------------------------- conversions on their own

\* durations and tick counts: the small, the edges of the rounding and of
\* the saturation, the 32-bit maximum
ConvValues ==
    {U32(0), U32(1), U32(2), U32(999), U32(1000), U32(1001), U32(2500),
     U32(4294), U32(4295), U32(4294967), U32(4294968),
     <<Limb - 1, Limb - 2>>, U32_MAX}

ConvFrequencies ==
    {U32(0), U32(1), U32(3), U32(999), U32(1000), U32(1001), U32(16000),
     U32(1000000), U32(10000000), U32_MAX}

program == <<pc, api, time, freq, ticks, cellId, called, ret, result, log,
             calls, spurious, ksub, karmed, kpending, lost, prevFreq>>

ConvInit ==
    /\ InitProgram
    /\ \E a \in ConvValues, b \in ConvValues, f \in ConvFrequencies :
          conv = [NoConv EXCEPT !.stage = "input", !.a = a, !.b = b, !.f = f]

\* Milliseconds(a).to_ticks(Hz(f)) and Milliseconds(b).to_ticks(Hz(f))
ConvertMilliseconds ==
    /\ conv.stage = "input"
    /\ conv' = [conv EXCEPT
                  !.stage = "milliseconds",
                  !.ta = Milliseconds_to_ticks(conv.a, conv.f),
                  !.tb = Milliseconds_to_ticks(conv.b, conv.f),
                  !.panic = \/ Milliseconds_to_ticks_panics(conv.a, conv.f)
                            \/ Milliseconds_to_ticks_panics(conv.b, conv.f)]
    /\ UNCHANGED program

\* Ticks(a).to_ticks(Hz(f))
ConvertTicks ==
    /\ conv.stage = "milliseconds"
    /\ conv' = [conv EXCEPT !.stage = "ticks",
                            !.id = Ticks_to_ticks(conv.a, conv.f)]
    /\ UNCHANGED program

\* Ticks(a) + Ticks(b)
AddTicks ==
    /\ conv.stage = "ticks"
    /\ conv' = [conv EXCEPT !.stage = "added",
                            !.sum = Ticks_add(conv.a, conv.b)]
    /\ UNCHANGED program

\* (Ticks(a) + Ticks(b)) - Ticks(b)
SubTicks ==
    /\ conv.stage = "added"
    /\ conv' = [conv EXCEPT !.stage = "subtracted",
                            !.diff = Ticks_sub(conv.sum, conv.b)]
    /\ UNCHANGED program

ConvNext ==
    \/ ConvertMilliseconds
    \/ ConvertTicks
    \/ AddTicks
    \/ SubTicks

ConvSpec == ConvInit /\ [][ConvNext]_vars

\* ---------------------------------------------------- reading the log

IsCommand(e, id) == e.op = "command" /\ e.driver = DRIVER_NUM /\ e.num = id

IsInstall(e) ==
    e.op = "subscribe" /\ e.driver = DRIVER_NUM /\ e.num = CALLBACK /\ e.cell # NoCell

IsNullSubscribe(e) ==
    e.op = "subscribe" /\ e.driver = DRIVER_NUM /\ e.num = CALLBACK /\ e.cell = NoCell

IsYield(e) == e.op = "yield"

Installs == {i \in DOMAIN log : IsInstall(log[i])}

NullSubscribes == {i \in DOMAIN log : IsNullSubscribe(log[i])}

Arms == {i \in DOMAIN log : IsCommand(log[i], SET_RELATIVE)}

FrequencyQueries == {i \in DOMAIN log : IsCommand(log[i], FREQUENCY)}

Yields == {i \in DOMAIN log : IsYield(log[i])}

Failures == {i \in DOMAIN log : log[i].ret # "OK"}

\* sleep_for is the call that is running, or the one that returned last
InSleepFor == api = "sleep_for"

Returned == pc = "idle" /\ api = "sleep_for"

\* ---------------------------------------------------------------- claims

\* C1: whenever no call is running (so after every sleep_for that has
\* returned, with Ok or with any error, after any sequence of calls) the
\* kernel holds no subscription on driver 0, subscribe slot 0.
C1_NoSubscriptionAfterReturn == pc = "idle" => ksub = NoCell

\* a second sleep_for call returned an error after its callback had been
\* installed, and the kernel holds no subscription
C1_Witness ==
    /\ Returned
    /\ calls = 2
    /\ result.tag = "Err"
    /\ \E i \in Installs : log[i].ret = "OK"
    /\ ksub = NoCell

\* C2: the kernel's subscription, when not null, points at the live
\* observation cell; when sleep_for is about to return and destroy its
\* cell, the subscription has already been replaced by a null entry.
C2_SubscriptionPointsAtLiveCell ==
    /\ ksub # NoCell => (cellId # NoCell /\ ksub = cellId)
    /\ pc = "return" => ksub = NoCell

\* the scope is about to end while the kernel points at the live cell
C2_Witness ==
    /\ pc = "scope_exit"
    /\ cellId # NoCell
    /\ ksub = cellId

\* C3: sleep_for returns Ok only when the alarm upcall has populated the
\* observation cell, and then it has yielded exactly once more than the
\* number of unrelated wakes: a wake that leaves the cell empty never ends
\* the loop.
C3_SpuriousWakeDoesNotReturn ==
    /\ (InSleepFor /\ ret.tag = "Ok") =>
          (called # None /\ Cardinality(Yields) = spurious + 1)
    /\ (pc = "scope_exit" /\ called = None) => ret.tag = "Err"

\* one unrelated wake, then the alarm upcall: Ok after the second yield
C3_Witness ==
    /\ Returned
    /\ result = Ok(Unit)
    /\ spurious = 1
    /\ Cardinality(Yields) = 2
    /\ called # None

\* C4: every SET_RELATIVE command in a call's log is preceded by a
\* successful install of the callback on slot 0; an armed alarm always has
\* a callback registered, and no alarm ever fired with none registered.
C4_ArmAfterSubscribe ==
    /\ \A i \in Arms : \E j \in Installs : j < i /\ log[j].ret = "OK"
    /\ karmed => ksub # NoCell
    /\ ~lost

\* the alarm fired before the first yield and its upcall was queued
C4_Witness ==
    /\ pc = "yield"
    /\ kpending
    /\ Yields = {}
    /\ Arms # {}

\* C5: once the frequency query, the subscribe and the arm command have
\* succeeded (sleep_for is at its yield), and the kernel eventually delivers
\* the alarm upcall, sleep_for eventually returns Ok.
C5_EventuallyReturnsOk == (pc = "yield") ~> (Returned /\ result = Ok(Unit))

\* sleep_for returned Ok after as many unrelated wakes as the model allows
C5_Witness ==
    /\ Returned
    /\ result = Ok(Unit)
    /\ spurious >= 2
    /\ Cardinality(Yields) = spurious + 1

ArmFailures == {i \in Arms : log[i].ret # "OK"}

InstallFailures == {i \in Installs : log[i].ret # "OK"}

FrequencyFailures == {i \in FrequencyQueries : log[i].ret # "OK"}

\* C6: after a SET_RELATIVE command that returned an error, sleep_for never
\* yields, a null subscribe on slot 0 follows the failed command before
\* sleep_for returns, and sleep_for returns that command's error.
C6_ArmFailureTearsDown ==
    \A i \in ArmFailures :
        /\ Yields = {}
        /\ ret = Err(log[i].ret)
        /\ pc \in {"return", "idle"} => \E j \in NullSubscribes : j > i
        /\ pc = "idle" => result = Err(log[i].ret)

\* the subscribe succeeded, the arm failed with BUSY, sleep_for returned
C6_Witness ==
    /\ Returned
    /\ \E i \in ArmFailures : log[i].ret = "BUSY" /\ log[i - 1].ret = "OK"
    /\ result = Err("BUSY")
    /\ IsNullSubscribe(log[Len(log)])

\* C7: after a failed install of the callback, no SET_RELATIVE command and
\* no yield is issued in that call, no callback is registered with the
\* kernel, and sleep_for returns that error.
C7_SubscribeFailure ==
    \A i \in InstallFailures :
        /\ Arms = {}
        /\ Yields = {}
        /\ ksub = NoCell
        /\ ret = Err(log[i].ret)
        /\ pc = "idle" => result = Err(log[i].ret)

\* the subscribe failed with FAIL and sleep_for returned
C7_Witness ==
    /\ Returned
    /\ \E i \in InstallFailures : log[i].ret = "FAIL"
    /\ result = Err("FAIL")

\* C8: when the FREQUENCY command of a sleep_for call fails, that command is
\* the only syscall of the call (no subscribe, null or not, no SET_RELATIVE,
\* no yield), the kernel's subscription and alarm are as they were, and
\* sleep_for returns that error.
C8_FrequencyFailure ==
    (InSleepFor /\ FrequencyFailures # {}) =>
        /\ Len(log) = 1
        /\ ksub = NoCell
        /\ ~karmed
        /\ ret = Err(log[1].ret)
        /\ pc \in {"return", "idle"}
        /\ pc = "idle" => result = Err(log[1].ret)

\* the frequency query of a second call failed with NODEVICE; it returned
C8_Witness ==
    /\ Returned
    /\ calls = 2
    /\ FrequencyFailures = {1}
    /\ result = Err("NODEVICE")

FirstFailure == CHOOSE i \in Failures : \A j \in Failures : i <= j

\* C9: an error returned by sleep_for is the code of the first failing
\* syscall of that call, unchanged; FREQUENCY, the callback install and
\* SET_RELATIVE are each issued at most once per call.
C9_ErrorsVerbatimNoRetry ==
    /\ (Returned /\ result.tag = "Err") =>
          (Failures # {} /\ result.err = log[FirstFailure].ret)
    /\ InSleepFor =>
          /\ Cardinality(FrequencyQueries) <= 1
          /\ Cardinality(Installs) <= 1
          /\ Cardinality(Arms) <= 1

\* the arm command failed with NODEVICE and sleep_for returned NODEVICE
C9_Witness ==
    /\ Returned
    /\ result = Err("NODEVICE")
    /\ ArmFailures # {}
    /\ Cardinality(Failures) = 1

\* comparison of exact 64-bit products
WideLt(x, y) == \E k \in 1..4 : x[k] < y[k] /\ \A j \in 1..(k - 1) : x[j] = y[j]

WideLe(x, y) == x = y \/ WideLt(x, y)

\* p capped at the 32-bit maximum
WideSaturate(p) == IF p[1] # 0 \/ p[2] # 0 THEN <<0, 0, Limb - 1, Limb - 1>> ELSE p

\* t = ceil(p / 1000) for an exact product p: t * 1000 >= p > (t - 1) * 1000
IsCeilOf(t, p) ==
    /\ WideLe(p, WideMul(t, U32(1000)))
    /\ t # Zero => WideLt(WideMul(wrapping_sub(t, U32(1)), U32(1000)), p)

\* the frequency the kernel returned to the running sleep_for call
ReturnedFrequency == log[1].val

FrequencyKnown ==
    InSleepFor /\ time.unit = "ms" /\ FrequencyQueries # {} /\ FrequencyFailures = {}

\* C10: every SET_RELATIVE command of a sleep_for(Milliseconds(m)) call
\* whose FREQUENCY query returned f has first argument ceil(m * f / 1000),
\* for the exact product m * f and the f returned in the same call, and
\* second argument 0 (1 ms at 1 kHz arms 1, 1 ms at 10 MHz arms 10000,
\* 2500 ms at 16 kHz arms 40000); the call issues at most one such command,
\* and exactly one when it gets past its subscribe.
C10_ArmsExactCeiling ==
    FrequencyKnown =>
        /\ \A i \in Arms :
              /\ IsCeilOf(log[i].arg1, WideMul(time.v, ReturnedFrequency))
              /\ log[i].arg2 = Zero
              /\ (time.v = U32(1) /\ ReturnedFrequency = U32(1000))
                    => log[i].arg1 = U32(1)
              /\ (time.v = U32(1) /\ ReturnedFrequency = U32(10000000))
                    => log[i].arg1 = U32(10000)
              /\ (time.v = U32(2500) /\ ReturnedFrequency = U32(16000))
                    => log[i].arg1 = U32(40000)
        /\ Cardinality(Arms) <= 1
        /\ (Returned /\ InstallFailures = {}) => Cardinality(Arms) = 1

\* What the code arms instead: the ceiling of the product capped at
\* 2^32 - 1, which agrees with C10 exactly when m * f fits in 32 bits.
ArmsSaturatedCeiling ==
    FrequencyKnown =>
        /\ \A i \in Arms :
              /\ IsCeilOf(log[i].arg1,
                          WideSaturate(WideMul(time.v, ReturnedFrequency)))
              /\ log[i].arg2 = Zero
        /\ Cardinality(Arms) <= 1
        /\ (Returned /\ InstallFailures = {}) => Cardinality(Arms) = 1

\* a second call, given 16 kHz after a first call that was given 10 MHz,
\* armed 2500 ms as 40000 ticks and returned
ArmsPerCallFrequency ==
    /\ Returned
    /\ calls = 2
    /\ time = Milliseconds(U32(2500))
    /\ ReturnedFrequency = U32(16000)
    /\ prevFreq = U32(10000000)
    /\ \E i \in Arms : log[i].arg1 = U32(40000) /\ log[i].arg2 = Zero

\* ------------------------------------------- claims on the conversions

\* the conversions of the operands have been worked out
Converted == conv.stage \in {"milliseconds", "ticks", "added", "subtracted"}

IsU32(x) == x[1] \in 0..(Limb - 1) /\ x[2] \in 0..(Limb - 1)

U32Le(x, y) == x[1] < y[1] \/ (x[1] = y[1] /\ x[2] <= y[2])

FitsU32(p) == p[1] = 0 /\ p[2] = 0

\* C11: for every Milliseconds(m) and Hz(f), t = Milliseconds(m).to_ticks(Hz(f))
\* satisfies t * 1000 >= m * f for the exact product m * f: the sleep never
\* underruns.
C11_NeverUnderruns ==
    Converted =>
        WideLe(WideMul(conv.a, conv.f), WideMul(conv.ta, U32(1000)))

\* C12: Milliseconds(0xFFFF_FFFF).to_ticks(Hz(1_000_000)) is 0xFFFF_FFFF: the
\* ceiling division of the saturated product remains saturated.
C12_SaturatedStaysSaturated ==
    (Converted /\ conv.a = U32_MAX /\ conv.f = U32(1000000)) =>
        conv.ta = U32_MAX

\* What the code returns there: ceil((2^32 - 1) / 1000) = 4294968.
SaturatedProductIsDivided ==
    (Converted /\ ~FitsU32(WideMul(conv.a, conv.f))) => conv.ta = U32(4294968)

\* C13: when the product m * f fits in 32 bits, Milliseconds(m).to_ticks(Hz(f))
\* is the exact ceiling of m * f / 1000: t * 1000 >= m * f, and
\* (t - 1) * 1000 < m * f when t > 0; 1 ms at 1 Hz is 1 tick, not 0.
C13_ExactCeilingWhenNoSaturation ==
    (Converted /\ FitsU32(WideMul(conv.a, conv.f))) =>
        /\ IsCeilOf(conv.ta, WideMul(conv.a, conv.f))
        /\ (conv.a = U32(1) /\ conv.f = U32(1)) => conv.ta = U32(1)

\* 1 ms at 1 Hz was converted to 1 tick
C13_Witness ==
    /\ Converted
    /\ conv.a = U32(1)
    /\ conv.f = U32(1)
    /\ conv.ta = U32(1)

\* C14: for every frequency, a <= b implies a.to_ticks(f) <= b.to_ticks(f),
\* also when one or both products saturate.
C14_Monotone ==
    (Converted /\ U32Le(conv.a, conv.b)) => U32Le(conv.ta, conv.tb)

\* at 1 MHz, 4294 ms (product fits) converts to fewer ticks than 4295 ms
\* (product saturates)
C14_Witness ==
    /\ Converted
    /\ conv.f = U32(1000000)
    /\ conv.a = U32(4294)
    /\ conv.b = U32(4295)
    /\ FitsU32(WideMul(conv.a, conv.f))
    /\ ~FitsU32(WideMul(conv.b, conv.f))
    /\ conv.ta # conv.tb
    /\ U32Le(conv.ta, conv.tb)

\* C15: (a + b) - b has the value of a for all Ticks a and b, also when
\* a + b exceeds 2^32 - 1; the sum and the difference are 32-bit values.
C15_AddSubInverse ==
    /\ conv.stage \in {"added", "subtracted"} => IsU32(conv.sum)
    /\ conv.stage = "subtracted" => (IsU32(conv.diff) /\ conv.diff = conv.a)

\* 0xFFFF_FFFF + 2 wrapped to 1, and 1 - 2 wrapped back to 0xFFFF_FFFF
C15_Witness ==
    /\ conv.stage = "subtracted"
    /\ conv.a = U32_MAX
    /\ conv.b = U32(2)
    /\ conv.sum = U32(1)
    /\ conv.diff = U32_MAX

\* C16: a sleep_for(Ticks(t)) call computes ticks = t whatever frequency
\* the kernel returned (0 included), and every SET_RELATIVE command it
\* issues has first argument t.
C16_TicksIdentity ==
    (/\ InSleepFor
     /\ time.unit = "ticks"
     /\ FrequencyQueries # {}
     /\ FrequencyFailures = {}) =>
        /\ ticks = time.v
        /\ \A i \in Arms : log[i].arg1 = time.v

\* sleep_for(Ticks(0xFFFF_FFFF)), told a frequency of 0, armed 0xFFFF_FFFF
C16_Witness ==
    /\ InSleepFor
    /\ time = Ticks(U32_MAX)
    /\ FrequencyQueries # {}
    /\ ReturnedFrequency = Zero
    /\ \E i \in Arms : log[i].ret = "OK" /\ log[i].arg1 = U32_MAX

\* C17: for every 32-bit m and f, Milliseconds(m).to_ticks(Hz(f)) is a 32-bit
\* value and no step of it panics: no division by zero, and d + 1 in the
\* ceiling division never exceeds 2^32 - 1.
C17_ConversionTotal ==
    Converted => (~conv.panic /\ IsU32(conv.ta) /\ IsU32(conv.tb))

\* the largest duration at the largest frequency, and a duration at
\* frequency 0, were converted
C17_Witness ==
    /\ Converted
    /\ conv.a = U32_MAX
    /\ conv.f = U32_MAX
    /\ conv.b = U32(1)
    /\ conv.ta = U32(4294968)
    /\ ~conv.panic

\* the command id each query issues
QueryCommand(name) ==
    CASE name = "exists"        -> EXISTS
      [] name = "get_frequency" -> FREQUENCY
      [] name = "get_time"      -> TIME

QueryNames == {"exists", "get_frequency", "get_time"}

\* C18: exists, get_frequency and get_time are stateless queries. A step
\* that starts and ends outside sleep_for is one of them; it issues exactly
\* one command on driver 0 with the query's id (0, 1, 2) and both arguments
\* 0, no subscribe and no yield; it leaves the kernel's subscription, armed
\* alarm and queued upcall as they were; and what it returns is the
\* command's error on failure and the returned integer on success, a
\* function of that kernel response alone, whatever was called before.
C18_QueriesAreStateless ==
    [][(pc = "idle" /\ pc' = "idle") =>
         /\ api' \in QueryNames
         /\ Len(log') = 1
         /\ IsCommand(log'[1], QueryCommand(api'))
         /\ log'[1].driver = 0
         /\ log'[1].num \in {0, 1, 2}
         /\ log'[1].arg1 = Zero
         /\ log'[1].arg2 = Zero
         /\ result' = IF log'[1].ret = "OK"
                       THEN Ok(log'[1].val)
                       ELSE Err(log'[1].ret)
         /\ UNCHANGED <<ksub, karmed, kpending, lost>>
         /\ UNCHANGED <<time, freq, ticks, cellId, called, calls>>]_vars

\* get_time has answered after a sleep_for that returned, and again with a
\* different kernel response
C18_Witness ==
    /\ pc = "idle"
    /\ calls = 1
    /\ api = "get_time"
    /\ result = Ok(U32(123456))
    /\ log = <<Command(TIME, Zero, Zero, CmdSuccess(U32(123456)))>>

\* C19: when sleep_for returns, no alarm it armed is left in the kernel.
\* Outside sleep_for no alarm is armed and no alarm upcall is queued; a call
\* that returned Ok armed its alarm and had the upcall delivered into its
\* cell; a call that returned an error armed nothing. So a later call starts
\* with no alarm of an earlier call armed or queued, and no alarm ever fires
\* with no callback registered.
C19_NoAlarmOutlivesCall ==
    /\ pc = "idle" => (~karmed /\ ~kpending)
    /\ (Returned /\ result = Ok(Unit)) =>
           /\ \E i \in Arms : log[i].ret = "OK"
           /\ called # None
    /\ (Returned /\ result.tag = "Err") => \A i \in Arms : log[i].ret # "OK"
    /\ pc \in {"get_frequency", "subscribe", "command"} =>
           (~karmed /\ ~kpending)
    /\ (pc \in {"yield", "check"} /\ (karmed \/ kpending)) =>
           (ksub = cellId /\ cellId = calls)
    /\ ~lost

\* a second sleep_for armed its alarm, was woken by it and returned Ok
C19_Witness ==
    /\ Returned
    /\ calls = 2
    /\ result = Ok(Unit)
    /\ \E i \in Arms : log[i].ret = "OK"
    /\ ~karmed
    /\ ~kpending

\* C20: each sleep_for call uses a fresh cell, empty when the subscription
\* is installed, when the alarm is armed and when the first yield starts;
\* once populated the cell keeps its value until the call is over, and no
\* yield starts with a populated cell; and sleep_for yields at least once
\* before it returns Ok, even when it armed 0 ticks.
C20_FreshCellOneWay ==
    /\ [](/\ pc \in {"subscribe", "command"} => called = None
          /\ (pc = "yield" /\ Yields = {}) => called = None
          /\ pc = "yield" => called = None
          /\ pc \in {"subscribe", "command", "yield", "check"} =>
                 (cellId = calls /\ cellId # NoCell)
          /\ (InSleepFor /\ ret = Ok(Unit)) => Yields # {}
          /\ (Returned /\ result = Ok(Unit)) => Yields # {})
    /\ [][called # None =>
             (pc' = "get_frequency" \/ (called' # None /\ called = called'))]_vars

\* sleep_for armed 0 ticks and returned Ok after exactly one yield
C20_Witness ==
    /\ Returned
    /\ result = Ok(Unit)
    /\ ticks = Zero
    /\ called # None
    /\ Cardinality(Yields) = 1
    /\ \E i \in Arms : log[i].arg1 = Zero /\ log[i].ret = "OK"

====
